---- MODULE Spec2Model ----
(***************************************************************************)
(* Model of the voice conversation orchestrator                            *)
(* (electron/conversation-manager.ts, class ConversationOrchestrator) as   *)
(* it is driven by the conversation-* IPC handlers of electron/main.ts and *)
(* by the events of the realtime speech-to-text session                    *)
(* (electron/openai-realtime.ts).                                          *)
(*                                                                         *)
(* JavaScript runs every handler to its next await without interleaving,   *)
(* so one action is one handler run from its entry to the await at which   *)
(* it yields (or to its return).  Every accepted startRecording() creates  *)
(* one timer; the timer callback and the pipeline it awaits form one       *)
(* continuation, kept in turns[t] with its position pc.                    *)
(*                                                                         *)
(* The Chat Responder behind generateAIResponse (electron/openai-chat.ts,  *)
(* class ConversationManager; electron/groq-chat.ts has the same code) is  *)
(* modelled on its own, with its history, in ChatSpec.                     *)
(***************************************************************************)
EXTENDS Integers, Sequences, FiniteSets, TLC

----------------------------------------------------------------------------
(* Bounds of the model *)

MaxTurns == 2       \* timers and continuations that exist at the same time
MaxStarts == 2      \* successful start() calls on one speech-to-text session
MaxFwd == 2         \* sets of forwarding listeners registered at the same time
MaxHistory == 3     \* largest configured maxHistoryLength of ChatSpec
MaxSends == 3       \* sendMessage calls on one chat manager
ApiCallsMod == 2    \* the API calls of one sendMessage are counted modulo this

(* Program constants *)

maxAttempts == 30               \* grace polls of 100 ms
minTranscriptionLength == 3     \* text.trim().length < 3 is ignored
speechCollectionDuration == 7000 \* delay of the collection timer, ms
defaultMaxHistoryLength == 20   \* ChatConfig.maxHistoryLength by default

----------------------------------------------------------------------------
(* Text: a string is a sequence of characters; " " is white space. *)

RECURSIVE trimStart(_)
trimStart(s) ==
    IF s = <<>> THEN <<>>
    ELSE IF Head(s) = " " THEN trimStart(Tail(s)) ELSE s

RECURSIVE trimEnd(_)
trimEnd(s) ==
    IF s = <<>> THEN <<>>
    ELSE IF s[Len(s)] = " " THEN trimEnd(SubSeq(s, 1, Len(s) - 1)) ELSE s

trim(s) == trimEnd(trimStart(s))

(* Transcripts the speech-to-text service can deliver. *)
Transcripts ==
    { <<>>,
      <<" ", " ", " ">>,
      <<" ", "o", "k", " ">>,
      <<"y", "e", "s">>,
      <<" ", "l", "i", "g", "h", "t", "s">> }

(* Replies of the chat completion. *)
Replies == { "hi there" }

(* The audio buffer the synthesizer returns for a text. *)
synthesizeSpeech(text) == <<"audio", text>>

Modes == { "continuous", "single-turn" }

States == { "idle", "listening", "transcribing", "ai_thinking",
            "tts_generating", "ai_speaking" }

TurnIds == 1 .. MaxTurns

(* A timer and its continuation: pc is its position ("none": the slot is  *)
(* free), attempts and reply are the locals attempts and aiResponse; log   *)
(* is what its code has emitted so far (the event types, the state for a   *)
(* state_changed); stopped tells that stop() ran while it waited where it  *)
(* is now; delay is the delay its timer was created with.                  *)
NoTurn == [pc |-> "none", delay |-> 0, attempts |-> 0, reply |-> "",
           log |-> <<>>, stopped |-> FALSE]

Running == { "poll", "chat", "tts", "play" }

----------------------------------------------------------------------------
VARIABLES
    isActive,               \* ConversationOrchestrator.isActive
    currentState,           \* ConversationOrchestrator.currentState
    mode,                   \* ConversationOrchestrator.mode
    processingResponse,     \* ConversationOrchestrator.processingResponse
    lastTranscription,      \* ConversationOrchestrator.lastTranscription
    speechCollectionTimer,  \* handle of the latest collection timer, 0 = null
    isCollectingSpeech,     \* ConversationOrchestrator.isCollectingSpeech
    sttSession,             \* ConversationOrchestrator.sttSession # null
    turns,                  \* the timers and their continuations
    events,                 \* the emit() calls of the last step, in order
    calls,                  \* the collaborator calls of the last step
    recLog,                 \* what startRecording() or the 'transcription'
                            \* listener logged in the last step
    result,                 \* what the IPC handler of the last step returned
    accepted,               \* last fragment accepted since the window was opened
    signal,                 \* "off": no window accepted since start()/stop();
                            \* "open": a window was accepted and no terminal
                            \* signal emitted since; "signalled": one was
    nFwd,                   \* forwarding listener sets on the orchestrator
    sttExists,              \* realtimeSession # null (openai-realtime.ts)
    sttListeners,           \* orchestrator listener sets on that session
    chatInit,               \* getConversationManager().isInitialized()
    ttsInit                 \* isTTSInitialized()

VARIABLES
    conversationHistory,    \* ConversationManager.conversationHistory
    maxHistoryLength,       \* ConversationManager.config.maxHistoryLength
    chatPc,                 \* "idle", or "api": a sendMessage awaits
                            \* chat.completions.create
    userMessage,            \* the argument of the sendMessage that is running
    messages,               \* the messages of the last chat.completions.create
    chatResult,             \* "none", or how the last sendMessage ended:
                            \* "resolved" or "rejected"
    historyBefore,          \* the history as it would be had the running (or
                            \* last) sendMessage not been called
    nSends,                 \* sendMessage calls so far
    apiCalls                \* chat.completions.create calls of the running
                            \* sendMessage, modulo ApiCallsMod

chatVars == <<conversationHistory, maxHistoryLength, chatPc, userMessage,
              messages, chatResult, historyBefore, nSends, apiCalls>>

orchVars == <<isActive, currentState, mode, processingResponse,
              lastTranscription, speechCollectionTimer, isCollectingSpeech,
              sttSession, turns, events, calls, recLog, result, accepted,
              signal>>

envVars == <<nFwd, sttExists, sttListeners, chatInit, ttsInit>>

vars == <<isActive, currentState, mode, processingResponse,
          lastTranscription, speechCollectionTimer, isCollectingSpeech,
          sttSession, turns, events, calls, recLog, result, accepted, signal,
          nFwd, sttExists, sttListeners, chatInit, ttsInit,
          conversationHistory, maxHistoryLength, chatPc, userMessage,
          messages, chatResult, historyBefore, nSends, apiCalls>>

(* The orchestrator object as one record, so that a handler is a function  *)
(* from the object before to the object after.  A step of the orchestrator *)
(* does not touch the fields of the chat manager.                          *)
Cur ==
    [isActive |-> isActive, currentState |-> currentState, mode |-> mode,
     processingResponse |-> processingResponse,
     lastTranscription |-> lastTranscription,
     speechCollectionTimer |-> speechCollectionTimer,
     isCollectingSpeech |-> isCollectingSpeech,
     sttSession |-> sttSession, turns |-> turns, events |-> events,
     calls |-> calls,
     recLog |-> recLog, result |-> result, accepted |-> accepted,
     signal |-> signal]

Commit(S) ==
    \E R \in {S} :
        /\ isActive' = R.isActive
        /\ currentState' = R.currentState
        /\ mode' = R.mode
        /\ processingResponse' = R.processingResponse
        /\ lastTranscription' = R.lastTranscription
        /\ speechCollectionTimer' = R.speechCollectionTimer
        /\ isCollectingSpeech' = R.isCollectingSpeech
        /\ sttSession' = R.sttSession
        /\ turns' = R.turns
        /\ events' = R.events
        /\ calls' = R.calls
        /\ recLog' = R.recLog
        /\ result' = R.result
        /\ accepted' = R.accepted
        /\ signal' = R.signal
        /\ UNCHANGED chatVars

----------------------------------------------------------------------------
(* EventEmitter.emit of the orchestrator: by is the turn whose code emits, *)
(* 0 for code that belongs to no turn.  The listeners run inside the emit: *)
(* unwound tells whether both flags are false when they run.               *)
Terminal == { "turn_complete", "no_speech_detected", "error" }

emit(S, type, arg, by) ==
    LET e == [type |-> type, arg |-> arg, turn |-> by,
              unwound |-> ~S.processingResponse /\ ~S.isCollectingSpeech]
        S1 == [S EXCEPT !.events = Append(@, e),
                        !.signal = IF @ = "open" /\ type \in Terminal
                                   THEN "signalled" ELSE @]
    IN  IF by = 0 THEN S1
        ELSE [S1 EXCEPT !.turns[by].log =
                  Append(@, IF type = "state_changed" THEN arg ELSE type)]

(* A call of a collaborator: fn is "chat" (ConversationManager.sendMessage *)
(* through generateAIResponse) or "tts" (synthesizeSpeech through          *)
(* generateSpeech).                                                        *)
call(S, fn, arg, by) ==
    [S EXCEPT !.calls = Append(@, [fn |-> fn, arg |-> arg, turn |-> by])]

setState(S, state, by) ==
    emit([S EXCEPT !.currentState = state], "state_changed", state, by)

(* The value an IPC handler returns: { success: true, ... } or            *)
(* { success: false, error: error.message }.                               *)
Reply(op, err) == [op |-> op, success |-> (err = ""), error |-> err]

NoResult == Reply("none", "")

(* clearTimeout(this.speechCollectionTimer): a pending timer is cancelled, *)
(* a timer that has fired is not affected.                                 *)
clearTimeout(S) ==
    IF S.speechCollectionTimer # 0
       /\ S.turns[S.speechCollectionTimer].pc = "armed"
    THEN [S EXCEPT !.turns[S.speechCollectionTimer] = NoTurn]
    ELSE S

(* The continuation returns. *)
finish(S, t) == [S EXCEPT !.turns[t] = NoTurn]

(* The object a handler starts from: nothing emitted yet. *)
Begin ==
    [Cur EXCEPT !.events = <<>>, !.calls = <<>>, !.recLog = "none",
                !.result = NoResult]

(* The object a step of continuation t starts from. *)
Resume(t) == [Begin EXCEPT !.turns[t].stopped = FALSE]

(* Records, for every continuation that is running, that stop() ran. *)
markStopped(S) ==
    [S EXCEPT !.turns = [t \in TurnIds |->
        IF S.turns[t].pc \in Running
        THEN [S.turns[t] EXCEPT !.stopped = TRUE]
        ELSE S.turns[t]]]

----------------------------------------------------------------------------
(* the checks of start without the one of isActive *)
startError_noActiveCheck(S) ==
    IF ~chatInit THEN "Chat manager not initialized"
    ELSE IF ~ttsInit THEN "TTS not initialized"
    ELSE ""

(* The three checks of ConversationOrchestrator.start: the message of the  *)
(* Error it throws, "" if it throws none.                                  *)
startError(S) ==
    IF S.isActive THEN "Conversation already active"
    ELSE IF ~chatInit THEN "Chat manager not initialized"
    ELSE IF ~ttsInit THEN "TTS not initialized"
    ELSE ""

(* ConversationOrchestrator.start, after its three checks have passed.     *)
start(S, m) ==
    LET S1 == [S EXCEPT !.sttSession = TRUE, !.isActive = TRUE, !.mode = m]
        S2 == setState(S1, "idle", 0)
    IN  emit(S2, "started", m, 0)

(* stop without its test of isActive *)
stop_noGuard(S) ==
    LET S1 == setState([markStopped(S) EXCEPT !.isActive = FALSE,
                                              !.signal = "off"],
                       "idle", 0)
        S2 == [S1 EXCEPT !.processingResponse = FALSE,
                         !.isCollectingSpeech = FALSE]
        S3 == [clearTimeout(S2) EXCEPT !.speechCollectionTimer = 0]
        S4 == [S3 EXCEPT !.sttSession = FALSE]
    IN  emit(S4, "stopped", "", 0)

(* stop leaving processingResponse as it is *)
stop_keepsProcessing(S) ==
    IF ~S.isActive THEN S
    ELSE
        LET S1 == setState([markStopped(S) EXCEPT !.isActive = FALSE,
                                                  !.signal = "off"],
                           "idle", 0)
            S2 == [S1 EXCEPT !.isCollectingSpeech = FALSE]
            S3 == [clearTimeout(S2) EXCEPT !.speechCollectionTimer = 0]
            S4 == [S3 EXCEPT !.sttSession = FALSE]
        IN  emit(S4, "stopped", "", 0)

(* ConversationOrchestrator.stop *)
stop(S) ==
    IF ~S.isActive THEN S
    ELSE
        LET S1 == setState([markStopped(S) EXCEPT !.isActive = FALSE,
                                                  !.signal = "off"],
                           "idle", 0)
            S2 == [S1 EXCEPT !.processingResponse = FALSE,
                             !.isCollectingSpeech = FALSE]
            S3 == [clearTimeout(S2) EXCEPT !.speechCollectionTimer = 0]
            S4 == [S3 EXCEPT !.sttSession = FALSE]
        IN  emit(S4, "stopped", "", 0)

(* startRecording with the pending transcript cleared before the guard *)
startRecording_clearsFirst(S, t) ==
    IF ~S.isActive \/ S.processingResponse \/ S.isCollectingSpeech
    THEN [S EXCEPT !.recLog = "ignored", !.lastTranscription = <<>>]
    ELSE
        LET S1 == [S EXCEPT !.isCollectingSpeech = TRUE,
                            !.lastTranscription = <<>>,
                            !.accepted = <<>>,
                            !.signal = "open",
                            !.recLog = "recording"]
            S2 == emit(setState(S1, "listening", t), "user_speaking", "", t)
            S3 == clearTimeout(S2)
        IN  [S3 EXCEPT !.speechCollectionTimer = t,
                       !.turns[t] = [S3.turns[t] EXCEPT
                                        !.pc = "armed",
                                        !.delay = speechCollectionDuration]]

(* startRecording not clearing the timer of the window before *)
startRecording_noClear(S, t) ==
    IF ~S.isActive \/ S.processingResponse \/ S.isCollectingSpeech
    THEN [S EXCEPT !.recLog = "ignored"]
    ELSE
        LET S1 == [S EXCEPT !.isCollectingSpeech = TRUE,
                            !.lastTranscription = <<>>,
                            !.accepted = <<>>,
                            !.signal = "open",
                            !.recLog = "recording"]
            S2 == emit(setState(S1, "listening", t), "user_speaking", "", t)
        IN  [S2 EXCEPT !.speechCollectionTimer = t,
                       !.turns[t] = [S2.turns[t] EXCEPT
                                        !.pc = "armed",
                                        !.delay = speechCollectionDuration]]

(* startRecording opening the window over the transcript left behind *)
startRecording_keepsTranscript(S, t) ==
    IF ~S.isActive \/ S.processingResponse \/ S.isCollectingSpeech
    THEN [S EXCEPT !.recLog = "ignored"]
    ELSE
        LET S1 == [S EXCEPT !.isCollectingSpeech = TRUE,
                            !.accepted = <<>>,
                            !.signal = "open",
                            !.recLog = "recording"]
            S2 == emit(setState(S1, "listening", t), "user_speaking", "", t)
            S3 == clearTimeout(S2)
        IN  [S3 EXCEPT !.speechCollectionTimer = t,
                       !.turns[t] = [S3.turns[t] EXCEPT
                                        !.pc = "armed",
                                        !.delay = speechCollectionDuration]]

(* ConversationOrchestrator.startRecording; t is the timer it creates.     *)
startRecording(S, t) ==
    IF ~S.isActive \/ S.processingResponse \/ S.isCollectingSpeech
    THEN [S EXCEPT !.recLog = "ignored"]
    ELSE
        LET S1 == [S EXCEPT !.isCollectingSpeech = TRUE,
                            !.lastTranscription = <<>>,
                            !.accepted = <<>>,
                            !.signal = "open",
                            !.recLog = "recording"]
            S2 == emit(setState(S1, "listening", t), "user_speaking", "", t)
            S3 == clearTimeout(S2)
        IN  [S3 EXCEPT !.speechCollectionTimer = t,
                       !.turns[t] = [S3.turns[t] EXCEPT
                                        !.pc = "armed",
                                        !.delay = speechCollectionDuration]]

(* the 'transcription' listener appending to the pending transcript *)
onTranscription_appends(S, text) ==
    IF ~S.isActive \/ S.processingResponse \/ ~S.isCollectingSpeech
    THEN [S EXCEPT !.recLog = "fragment ignored"]
    ELSE IF text = <<>> \/ Len(trim(text)) < minTranscriptionLength
    THEN [S EXCEPT !.recLog = "fragment short"]
    ELSE [S EXCEPT !.lastTranscription = @ \o text, !.accepted = text,
                   !.recLog = "fragment"]

(* the 'transcription' listener not testing isCollectingSpeech *)
onTranscription_noWindowTest(S, text) ==
    IF ~S.isActive \/ S.processingResponse
    THEN [S EXCEPT !.recLog = "fragment ignored"]
    ELSE IF text = <<>> \/ Len(trim(text)) < minTranscriptionLength
    THEN [S EXCEPT !.recLog = "fragment short"]
    ELSE [S EXCEPT !.lastTranscription = text, !.accepted = text,
                   !.recLog = "fragment"]

(* the 'transcription' listener measuring the text untrimmed *)
onTranscription_untrimmed(S, text) ==
    IF ~S.isActive \/ S.processingResponse \/ ~S.isCollectingSpeech
    THEN [S EXCEPT !.recLog = "fragment ignored"]
    ELSE IF text = <<>> \/ Len(text) < minTranscriptionLength
    THEN [S EXCEPT !.recLog = "fragment short"]
    ELSE [S EXCEPT !.lastTranscription = text, !.accepted = text,
                   !.recLog = "fragment"]

(* The 'transcription' listener of setupSTTListeners. *)
onTranscription(S, text) ==
    IF ~S.isActive \/ S.processingResponse \/ ~S.isCollectingSpeech
    THEN [S EXCEPT !.recLog = "fragment ignored"]
    ELSE IF text = <<>> \/ Len(trim(text)) < minTranscriptionLength
    THEN [S EXCEPT !.recLog = "fragment short"]
    ELSE [S EXCEPT !.lastTranscription = text, !.accepted = text,
                   !.recLog = "fragment"]

(* the 'error' listener resetting nothing *)
onSttError_reportsOnly(S, listening) == emit(S, "error", "stt", 0)

(* The 'error' listener of setupSTTListeners.  An emit('error') on an      *)
(* emitter without an 'error' listener throws (Node EventEmitter): the     *)
(* emit is recorded and the rest of the listener is skipped.               *)
onSttError(S, listening) ==
    LET S1 == emit(S, "error", "stt", 0)
    IN  IF ~listening THEN S1
        ELSE IF S1.isActive
        THEN setState([S1 EXCEPT !.processingResponse = FALSE,
                                 !.isCollectingSpeech = FALSE], "idle", 0)
        ELSE S1

(* The session calls each registered listener in turn; a listener that     *)
(* throws ends the emit.                                                   *)
RECURSIVE onSttErrorAll(_, _, _)
onSttErrorAll(S, k, listening) ==
    IF k = 0 THEN S
    ELSE IF ~listening THEN onSttError(S, listening)
    ELSE onSttErrorAll(onSttError(S, listening), k - 1, listening)

----------------------------------------------------------------------------
(* ConversationOrchestrator.handleUserTranscription, split at its awaits.  *)

(* handleUserTranscription entering ai_thinking before it emits user_spoke *)
handleUserTranscription_stateFirst(S, t, transcription) ==
    IF ~S.isActive \/ S.processingResponse THEN finish(S, t)
    ELSE
        LET S1 == [S EXCEPT !.processingResponse = TRUE]
            S2 == [clearTimeout(S1) EXCEPT !.speechCollectionTimer = 0]
            S3 == setState(S2, "ai_thinking", t)
            S4 == emit(S3, "user_spoke", transcription, t)
            S5 == call(S4, "chat", transcription, t)
        IN  [S5 EXCEPT !.turns[t].pc = "chat"]

(* entry to the await of generateAIResponse *)
handleUserTranscription(S, t, transcription) ==
    IF ~S.isActive \/ S.processingResponse THEN finish(S, t)
    ELSE
        LET S1 == [S EXCEPT !.processingResponse = TRUE]
            S2 == [clearTimeout(S1) EXCEPT !.speechCollectionTimer = 0]
            S3 == emit(S2, "user_spoke", transcription, t)
            S4 == setState(S3, "ai_thinking", t)
            S5 == call(S4, "chat", transcription, t)
        IN  [S5 EXCEPT !.turns[t].pc = "chat"]

(* generateAIResponse resolved: to the await of generateSpeech *)
afterAIResponse(S, t, aiResponse) ==
    IF ~S.isActive THEN finish(S, t)
    ELSE
        LET S1 == emit(S, "ai_response", aiResponse, t)
            S2 == setState(S1, "tts_generating", t)
            S3 == call(S2, "tts", aiResponse, t)
        IN  [S3 EXCEPT !.turns[t].pc = "tts", !.turns[t].reply = aiResponse]

(* generateSpeech resolved: to the await of wait(estimatedDuration) *)
afterSpeech(S, t, audioBuffer) ==
    IF ~S.isActive THEN finish(S, t)
    ELSE
        LET S1 == setState(S, "ai_speaking", t)
            S2 == emit(S1, "ai_audio", audioBuffer, t)
        IN  [S2 EXCEPT !.turns[t].pc = "play"]

(* the end of a turn stopping a single-turn session *)
afterWait_selfStops(S, t) ==
    LET S1 == [S EXCEPT !.processingResponse = FALSE,
                        !.isCollectingSpeech = FALSE,
                        !.lastTranscription = <<>>]
        S2 == IF S1.isActive
              THEN emit(setState(S1, "idle", t), "turn_complete", "", t)
              ELSE S1
    IN  finish(IF S2.mode = "single-turn" THEN stop(S2) ELSE S2, t)

(* wait(estimatedDuration) resolved: to the return *)
afterWait(S, t) ==
    LET S1 == [S EXCEPT !.processingResponse = FALSE,
                        !.isCollectingSpeech = FALSE,
                        !.lastTranscription = <<>>]
        S2 == IF S1.isActive
              THEN emit(setState(S1, "idle", t), "turn_complete", "", t)
              ELSE S1
    IN  finish(S2, t)

(* the catch block leaving isCollectingSpeech as it is *)
catchBlock_keepsCollecting(S, t, what, listening) ==
    LET S1 == emit(S, "error", what, t)
        S2 == [S1 EXCEPT !.processingResponse = FALSE,
                         !.lastTranscription = <<>>]
        S3 == IF S2.isActive THEN setState(S2, "idle", t) ELSE S2
    IN  IF ~listening THEN finish(S1, t) ELSE finish(S3, t)

(* the catch block ending the session *)
catchBlock_endsSession(S, t, what, listening) ==
    LET S1 == emit(S, "error", what, t)
        S2 == [S1 EXCEPT !.processingResponse = FALSE,
                         !.isCollectingSpeech = FALSE,
                         !.lastTranscription = <<>>,
                         !.isActive = FALSE]
        S3 == setState(S2, "idle", t)
    IN  IF ~listening THEN finish(S1, t) ELSE finish(S3, t)

(* the catch block; what names the call that failed *)
catchBlock(S, t, what, listening) ==
    LET S1 == emit(S, "error", what, t)
        S2 == [S1 EXCEPT !.processingResponse = FALSE,
                         !.isCollectingSpeech = FALSE,
                         !.lastTranscription = <<>>]
        S3 == IF S2.isActive THEN setState(S2, "idle", t) ELSE S2
    IN  IF ~listening THEN finish(S1, t) ELSE finish(S3, t)

----------------------------------------------------------------------------
(* The callback of the collection timer, split at wait(100).               *)

pending(S) == S.lastTranscription = <<>> \/ Len(trim(S.lastTranscription)) = 0

(* the no-speech branch leaving the state at transcribing *)
afterLoop_staysTranscribing(S, t) ==
    IF ~pending(S)
    THEN handleUserTranscription(S, t, S.lastTranscription)
    ELSE
        LET S1 == [S EXCEPT !.isCollectingSpeech = FALSE]
        IN  finish(emit(S1, "no_speech_detected", "", t), t)

(* the callback handing on whatever it has, empty or not *)
afterLoop_alwaysHandles(S, t) ==
    handleUserTranscription(S, t, S.lastTranscription)

(* after the while loop *)
afterLoop(S, t) ==
    IF ~pending(S)
    THEN handleUserTranscription(S, t, S.lastTranscription)
    ELSE
        LET S1 == [S EXCEPT !.isCollectingSpeech = FALSE]
            S2 == setState(S1, "idle", t)
        IN  finish(emit(S2, "no_speech_detected", "", t), t)

(* the while loop polling once more than maxAttempts times *)
loopTest_oneMore(S, t, attempts) ==
    IF attempts <= maxAttempts /\ pending(S)
    THEN [S EXCEPT !.turns[t].pc = "poll", !.turns[t].attempts = attempts]
    ELSE afterLoop([S EXCEPT !.turns[t].attempts = attempts], t)

(* the test of the while loop after attempts polls *)
loopTest(S, t, attempts) ==
    IF attempts < maxAttempts /\ pending(S)
    THEN [S EXCEPT !.turns[t].pc = "poll", !.turns[t].attempts = attempts]
    ELSE afterLoop([S EXCEPT !.turns[t].attempts = attempts], t)

(* the callback clearing isCollectingSpeech as it fires *)
timerCallback_clearsCollecting(S, t) ==
    loopTest(setState([S EXCEPT !.turns[t].pc = "poll",
                                !.isCollectingSpeech = FALSE],
                      "transcribing", t),
             t, 0)

(* the timer fires: it is no longer pending, clearTimeout on its handle    *)
(* has no effect from here on                                              *)
timerCallback(S, t) ==
    loopTest(setState([S EXCEPT !.turns[t].pc = "poll"], "transcribing", t),
             t, 0)

(* wait(100) resolved *)
pollWake(S, t) == loopTest(S, t, S.turns[t].attempts + 1)

(* The polls that follow each other with no other handler run in between,  *)
(* up to the one that leaves the loop.                                     *)
RECURSIVE graceWait(_, _)
graceWait(S, t) ==
    IF S.turns[t].pc # "poll" THEN S
    ELSE CHOOSE R \in {graceWait(N, t) : N \in {pollWake(S, t)}} : TRUE

----------------------------------------------------------------------------
(* ConversationManager of electron/openai-chat.ts: the functions on its    *)
(* history.  A message is its role and its content.                        *)

Msg(role, content) == [role |-> role, content |-> content]

Prompts == { "prompt", "prompt2" }      \* system prompts
UserMessages == { "a", "b" }            \* arguments of sendMessage

(* completion.choices[0]?.message?.content || 'I apologize, ...' *)
Completions == { "reply", "I apologize" }

(* What chat.completions.create can throw: status and code of the error.  *)
(* 0 stands for an error without a status.                                 *)
ApiErrors ==
    [status : {0, 400, 401, 429, 500},
     code : {"context_length_exceeded", "other"}]

(* Array.prototype.slice(start): a negative start counts from the end, and *)
(* -0 is 0.                                                                *)
slice(h, first) ==
    LET n == Len(h)
        from == IF first < 0
                THEN (IF n + first < 0 THEN 0 ELSE n + first)
                ELSE (IF first > n THEN n ELSE first)
    IN  SubSeq(h, from + 1, n)

(* ConversationManager.trimHistory *)
trimHistory(h, maxLength) ==
    IF Len(h) <= maxLength THEN h
    ELSE <<h[1]>> \o slice(h, -maxLength + 1)

(* the index of the first system message, 0 if there is none *)
findSystem(h) ==
    IF \E i \in DOMAIN h : h[i].role = "system"
    THEN CHOOSE i \in DOMAIN h :
            /\ h[i].role = "system"
            /\ \A j \in 1 .. (i - 1) : h[j].role # "system"
    ELSE 0

(* ConversationManager.clearHistory *)
clearHistory(h) ==
    IF findSystem(h) # 0 THEN <<h[findSystem(h)]>> ELSE <<>>

(* ConversationManager.setSystemPrompt *)
setSystemPrompt(h, prompt) ==
    IF findSystem(h) # 0
    THEN [h EXCEPT ![findSystem(h)] = Msg("system", prompt)]
    ELSE <<Msg("system", prompt)>> \o h

(* sendMessage from its entry to chat.completions.create: the history it  *)
(* leaves, which is also the message list it sends                         *)
pushAndTrim(h, text, maxLength) ==
    trimHistory(Append(h, Msg("user", text)), maxLength)

(* createConversationManager(openai, config) with maxHistoryLength n *)
ChatManagerInit(n) ==
    /\ conversationHistory = <<Msg("system", "prompt")>>
    /\ maxHistoryLength = n
    /\ chatPc = "idle"
    /\ userMessage = ""
    /\ messages = <<>>
    /\ chatResult = "none"
    /\ historyBefore = <<Msg("system", "prompt")>>
    /\ nSends = 0
    /\ apiCalls = 0

----------------------------------------------------------------------------
OrchInit ==
    /\ isActive = FALSE
    /\ currentState = "idle"
    /\ mode = "continuous"
    /\ processingResponse = FALSE
    /\ lastTranscription = <<>>
    /\ speechCollectionTimer = 0
    /\ isCollectingSpeech = FALSE
    /\ sttSession = FALSE
    /\ turns = [t \in TurnIds |-> NoTurn]
    /\ events = <<>>
    /\ calls = <<>>
    /\ recLog = "none"
    /\ result = NoResult
    /\ accepted = <<>>
    /\ signal = "off"
    /\ nFwd = 0
    /\ sttExists = FALSE
    /\ sttListeners = 0
    /\ chatInit \in BOOLEAN
    /\ ttsInit \in BOOLEAN

Init == OrchInit /\ ChatManagerInit(defaultMaxHistoryLength)

(* The slot of the timer the next accepted startRecording() creates; 0 if  *)
(* the model has no free slot.                                             *)
freeSlots == {t \in TurnIds : turns[t].pc = "none"}
nextTimer == IF freeSlots = {} THEN 0
             ELSE CHOOSE t \in freeSlots : \A u \in freeSlots : t <= u

(* ipcMain.handle('realtime-start'), the first one: it creates the session *)
(* object.  Replacing the session while a conversation uses it is not part *)
(* of the model.                                                           *)
RealtimeStart ==
    /\ ~sttExists
    /\ sttExists' = TRUE
    /\ sttListeners' = 0
    /\ Commit(Begin)
    /\ UNCHANGED <<nFwd, chatInit, ttsInit>>

(* ipcMain.handle('conversation-start') *)
ConversationStart(m) ==
    IF ~sttExists
    THEN /\ Commit([Begin EXCEPT !.result =
                       Reply("conversation-start",
                       "Realtime STT session not started. Please start STT first.")])
         /\ UNCHANGED envVars
    ELSE
        /\ nFwd < MaxFwd
        /\ nFwd' = nFwd + 1
        /\ IF startError(Begin) # ""
           THEN /\ Commit([Begin EXCEPT !.result =
                              Reply("conversation-start", startError(Begin))])
                /\ UNCHANGED <<sttExists, sttListeners, chatInit, ttsInit>>
           ELSE /\ sttListeners < MaxStarts
                /\ Commit([start(Begin, m) EXCEPT !.result =
                              Reply("conversation-start", "")])
                /\ sttListeners' = sttListeners + 1
                /\ UNCHANGED <<sttExists, chatInit, ttsInit>>

(* ipcMain.handle('conversation-stop') *)
ConversationStop ==
    /\ Commit([stop(Begin) EXCEPT !.result = Reply("conversation-stop", "")])
    /\ nFwd' = 0
    /\ UNCHANGED <<sttExists, sttListeners, chatInit, ttsInit>>

(* ipcMain.handle('conversation-start-recording') *)
ConversationStartRecording ==
    /\ (isActive /\ ~processingResponse /\ ~isCollectingSpeech)
          => nextTimer # 0
    /\ Commit([startRecording(Begin, nextTimer) EXCEPT !.result =
                  Reply("conversation-start-recording", "")])
    /\ UNCHANGED envVars

(* RealtimeSession.handleServerEvent,                                      *)
(* 'conversation.item.input_audio_transcription.completed'                 *)
Transcription(text) ==
    /\ trim(text) # <<>>
    /\ sttListeners > 0
    /\ Commit(onTranscription(Begin, text))
    /\ UNCHANGED envVars

(* RealtimeSession.handleServerEvent, 'error' and                          *)
(* 'conversation.item.input_audio_transcription.failed'                    *)
SttError ==
    /\ sttListeners > 0
    /\ Commit(onSttErrorAll(Begin, sttListeners, nFwd > 0))
    /\ UNCHANGED envVars

TimerFire(t) ==
    /\ turns[t].pc = "armed"
    /\ Commit(timerCallback(Resume(t), t))
    /\ UNCHANGED envVars

(* The grace wait ends.  A poll that finds no transcript changes nothing   *)
(* but the local attempts, so every run of the program is, up to such      *)
(* polls, a run in which the handlers that interleave with the grace wait  *)
(* all run before its first poll; the polls are then taken together: one   *)
(* poll if a transcript has arrived, maxAttempts polls if none has.        *)
PollWake(t) ==
    /\ turns[t].pc = "poll"
    /\ Commit(graceWait(Resume(t), t))
    /\ UNCHANGED envVars

ChatResolve(t, r) ==
    /\ turns[t].pc = "chat"
    /\ Commit(afterAIResponse(Resume(t), t, r))
    /\ UNCHANGED envVars

ChatFail(t) ==
    /\ turns[t].pc = "chat"
    /\ Commit(catchBlock(Resume(t), t, "chat", nFwd > 0))
    /\ UNCHANGED envVars

TtsResolve(t) ==
    /\ turns[t].pc = "tts"
    /\ Commit(afterSpeech(Resume(t), t, synthesizeSpeech(turns[t].reply)))
    /\ UNCHANGED envVars

TtsFail(t) ==
    /\ turns[t].pc = "tts"
    /\ Commit(catchBlock(Resume(t), t, "tts", nFwd > 0))
    /\ UNCHANGED envVars

PlaybackDone(t) ==
    /\ turns[t].pc = "play"
    /\ Commit(afterWait(Resume(t), t))
    /\ UNCHANGED envVars

Next ==
    \/ RealtimeStart
    \/ \E m \in Modes : ConversationStart(m)
    \/ ConversationStop
    \/ ConversationStartRecording
    \/ \E text \in Transcripts : Transcription(text)
    \/ SttError
    \/ \E t \in TurnIds : TimerFire(t)
    \/ \E t \in TurnIds : PollWake(t)
    \/ \E t \in TurnIds, r \in Replies : ChatResolve(t, r)
    \/ \E t \in TurnIds : ChatFail(t)
    \/ \E t \in TurnIds : TtsResolve(t)
    \/ \E t \in TurnIds : TtsFail(t)
    \/ \E t \in TurnIds : PlaybackDone(t)

Spec == Init /\ [][Next]_vars

(* A continuation always takes its next step: an armed timer fires, a wait *)
(* resolves, a collaborator call resolves or fails.  At most one of the    *)
(* steps of a continuation is enabled at a time.                           *)
TurnStep(t) ==
    \/ TimerFire(t)
    \/ PollWake(t)
    \/ \E r \in Replies : ChatResolve(t, r)
    \/ ChatFail(t)
    \/ TtsResolve(t)
    \/ TtsFail(t)
    \/ PlaybackDone(t)

Fairness == \A t \in TurnIds : WF_vars(TurnStep(t))

LiveSpec == Init /\ [][Next]_vars /\ Fairness

----------------------------------------------------------------------------
(* The chat manager on its own: sendMessage calls one after the other,     *)
(* with chat-clear-history and chat-set-system-prompt at any time.         *)

ChatInit ==
    /\ OrchInit
    /\ chatInit
    /\ ttsInit
    /\ \E n \in 1 .. MaxHistory : ChatManagerInit(n)

(* sendMessage(text), to its await of chat.completions.create *)
SendMessage(text) ==
    /\ chatPc = "idle"
    /\ nSends < MaxSends
    /\ nSends' = nSends + 1
    /\ historyBefore' = conversationHistory
    /\ userMessage' = text
    /\ conversationHistory' =
           pushAndTrim(conversationHistory, text, maxHistoryLength)
    /\ messages' = conversationHistory'
    /\ apiCalls' = 1 % ApiCallsMod
    /\ chatPc' = "api"
    /\ chatResult' = "none"
    /\ UNCHANGED <<maxHistoryLength, orchVars, envVars>>

(* chat.completions.create resolved: to the return of sendMessage *)
ApiResolve(content) ==
    /\ chatPc = "api"
    /\ conversationHistory' =
           Append(conversationHistory, Msg("assistant", content))
    /\ chatPc' = "idle"
    /\ chatResult' = "resolved"
    /\ UNCHANGED <<maxHistoryLength, userMessage, messages, historyBefore,
                   nSends, apiCalls, orchVars, envVars>>

(* chat.completions.create threw error: the catch block of sendMessage,    *)
(* to its throw or, on the retry, to the await of the next call            *)
ApiFail(error) ==
    /\ chatPc = "api"
    /\ IF error.status \in {401, 429, 400}
          \/ error.code # "context_length_exceeded"
       THEN /\ chatPc' = "idle"
            /\ chatResult' = "rejected"
            /\ UNCHANGED <<conversationHistory, messages, apiCalls>>
       ELSE /\ conversationHistory' =
                   pushAndTrim(clearHistory(conversationHistory),
                               userMessage, maxHistoryLength)
            /\ messages' = conversationHistory'
            /\ apiCalls' = (apiCalls + 1) % ApiCallsMod
            /\ UNCHANGED <<chatPc, chatResult>>
    /\ UNCHANGED <<maxHistoryLength, userMessage, historyBefore, nSends,
                   orchVars, envVars>>

(* ipcMain.handle('chat-clear-history') *)
ChatClearHistory ==
    /\ conversationHistory' = clearHistory(conversationHistory)
    /\ historyBefore' = clearHistory(historyBefore)
    /\ UNCHANGED <<maxHistoryLength, chatPc, userMessage, messages,
                   chatResult, nSends, apiCalls, orchVars, envVars>>

(* ipcMain.handle('chat-set-system-prompt') *)
ChatSetSystemPrompt(prompt) ==
    /\ conversationHistory' = setSystemPrompt(conversationHistory, prompt)
    /\ historyBefore' = setSystemPrompt(historyBefore, prompt)
    /\ UNCHANGED <<maxHistoryLength, chatPc, userMessage, messages,
                   chatResult, nSends, apiCalls, orchVars, envVars>>

ChatNext ==
    \/ \E text \in UserMessages : SendMessage(text)
    \/ \E content \in Completions : ApiResolve(content)
    \/ \E error \in ApiErrors : ApiFail(error)
    \/ ChatClearHistory
    \/ \E prompt \in Prompts : ChatSetSystemPrompt(prompt)

ChatSpec == ChatInit /\ [][ChatNext]_vars

(* Every call of chat.completions.create completes: it resolves or throws. *)
ApiCompletes ==
    \/ \E content \in Completions : ApiResolve(content)
    \/ \E error \in ApiErrors : ApiFail(error)

ChatFairness == WF_vars(ApiCompletes)

ChatLiveSpec == ChatInit /\ [][ChatNext]_vars /\ ChatFairness

----------------------------------------------------------------------------
(* Helpers of the properties *)

(* continuation t has passed the entry guard of handleUserTranscription    *)
(* and has not returned                                                    *)
InFlight(t) == turns[t].pc \in {"chat", "tts", "play"}

Quiescent ==
    currentState = "idle" /\ ~isCollectingSpeech /\ ~processingResponse

(* startRecording() on object S would open a window *)
Accepts(S) == startRecording(S, 1).recLog = "recording"

----------------------------------------------------------------------------
(* C1: single-flight -- at most one invocation of handleUserTranscription  *)
(* that has passed its entry guard and has not returned is in flight at    *)
(* any time.                                                               *)
C1_SingleFlight == Cardinality({t \in TurnIds : InFlight(t)}) <= 1

(* C2: if every armed timer fires and every collaborator call resolves or  *)
(* rejects, the orchestrator always eventually reaches currentState = idle *)
(* with isCollectingSpeech = false and processingResponse = false.         *)
C2_ReturnToIdle == []<>Quiescent

(* a collaborator call has failed and the orchestrator is back at idle *)
C2_Witness ==
    /\ Quiescent
    /\ isActive
    /\ \E i \in DOMAIN events : events[i].type = "error" /\ events[i].turn # 0

(* C3: between an accepted startRecording() whose session is not stopped   *)
(* and the next accepted one exactly one terminal signal (turn_complete,   *)
(* no_speech_detected, error) is emitted; in particular, once one has been *)
(* emitted, the code of a turn emits no further one.                       *)
C3_OneTerminalSignal ==
    [][signal = "signalled" /\ signal' = "signalled"
         => \A i \in DOMAIN events' :
                ~(events'[i].type \in Terminal /\ events'[i].turn # 0)]_vars

(* C4: startRecording() on an inactive session, or while collecting, or    *)
(* while processing, changes no field, arms no timer, emits nothing; a     *)
(* call on an active session with both flags false opens a window.         *)
C4_RejectedIsNoOp ==
    [][ConversationStartRecording =>
         IF ~isActive \/ isCollectingSpeech \/ processingResponse
         THEN /\ UNCHANGED <<isActive, currentState, mode, processingResponse,
                             lastTranscription, speechCollectionTimer,
                             isCollectingSpeech, sttSession, turns>>
              /\ events' = <<>>
              /\ calls' = <<>>
         ELSE /\ isCollectingSpeech'
              /\ speechCollectionTimer' # 0
              /\ turns'[speechCollectionTimer'].pc = "armed"]_vars

(* a call was ignored while a window was open *)
C4_Witness == recLog = "ignored" /\ isActive /\ isCollectingSpeech

(* C5: after stop() was called while a turn waited for the chat reply or   *)
(* for the synthesized audio, that turn emits no ai_response, ai_audio,    *)
(* turn_complete, error or state_changed, whether the call resolves or     *)
(* fails.                                                                  *)
C5_StoppedTurnIsSilent ==
    [][\A t \in TurnIds :
         turns[t].stopped /\ turns[t].pc \in {"chat", "tts"}
            => \A i \in DOMAIN events' :
                 ~(/\ events'[i].turn = t
                   /\ events'[i].type \in {"ai_response", "ai_audio",
                          "turn_complete", "error", "state_changed"})]_vars

(* C6: a turn whose session was stopped and followed by a new start()      *)
(* emits nothing and changes no session state when its pending call, poll  *)
(* or wait completes.                                                      *)
C6_SupersededTurnIsDropped ==
    [][\A t \in TurnIds :
         /\ turns[t].stopped
         /\ isActive
         /\ turns[t].pc \in Running
         /\ turns'[t] # turns[t]
         => /\ events' = <<>>
            /\ UNCHANGED <<currentState, processingResponse,
                           isCollectingSpeech, lastTranscription,
                           speechCollectionTimer>>]_vars

(* C7: after stop() was called during the grace wait of a turn, that turn  *)
(* emits no state_changed, no_speech_detected or user_spoke and does not   *)
(* call the Chat Responder.                                                *)
C7_GraceWaitIsCancelled ==
    [][\A t \in TurnIds :
         turns[t].stopped /\ turns[t].pc = "poll"
            => /\ \A i \in DOMAIN events' :
                    ~(/\ events'[i].turn = t
                      /\ events'[i].type \in {"state_changed",
                             "no_speech_detected", "user_spoke"})
               /\ \A i \in DOMAIN calls' :
                    ~(calls'[i].turn = t /\ calls'[i].fn = "chat")]_vars

(* C8: when the chat call or the synthesis call of a turn fails while the  *)
(* session is active, error and then state_changed(idle) are emitted, both *)
(* flags are false and the pending transcript is empty afterwards, the     *)
(* session stays active and a following startRecording() is accepted.      *)
C8_FailureEndsTurnOnly ==
    [][\A t \in TurnIds :
         (ChatFail(t) \/ TtsFail(t)) /\ isActive
            => /\ Len(events') = 2
               /\ events'[1].type = "error"
               /\ events'[2].type = "state_changed"
               /\ events'[2].arg = "idle"
               /\ ~processingResponse'
               /\ ~isCollectingSpeech'
               /\ lastTranscription' = <<>>
               /\ currentState' = "idle"
               /\ isActive'
               /\ Accepts(Cur')]_vars

(* a collaborator call failed in an active session *)
C8_Witness ==
    /\ isActive
    /\ Len(events) = 2
    /\ events[1].type = "error"
    /\ events[1].turn # 0
    /\ events[2].type = "state_changed"

RECURSIVE logOf(_, _)
logOf(es, t) ==
    IF es = <<>> THEN <<>>
    ELSE LET e == Head(es)
             rest == logOf(Tail(es), t)
         IN  IF e.turn # t THEN rest
             ELSE <<IF e.type = "state_changed" THEN e.arg ELSE e.type>>
                  \o rest

ClaimedTypes == { "idle", "listening", "transcribing", "ai_thinking",
                  "tts_generating", "ai_speaking", "user_spoke",
                  "ai_response", "ai_audio", "turn_complete" }

InClaimedTypes(x) == x \in ClaimedTypes

(* what a turn that completes has emitted when it completes *)
TurnOrder(t) == SelectSeq(turns[t].log \o logOf(events', t), InClaimedTypes)

(* C10, as claimed: a successful turn emits state_changed(listening),      *)
(* state_changed(transcribing), state_changed(ai_thinking), user_spoke,    *)
(* state_changed(tts_generating), ai_response, state_changed(ai_speaking), *)
(* ai_audio, state_changed(idle), turn_complete, in this order.            *)
C10_ClaimedOrder ==
    [][\A t \in TurnIds :
         PlaybackDone(t) /\ isActive
            => TurnOrder(t) =
                 << "listening", "transcribing", "ai_thinking", "user_spoke",
                    "tts_generating", "ai_response", "ai_speaking",
                    "ai_audio", "idle", "turn_complete" >>]_vars

(* C10, amended: user_spoke precedes state_changed(ai_thinking) and        *)
(* ai_response precedes state_changed(tts_generating); the rest of the     *)
(* order is as claimed.                                                    *)
C10_EventOrder ==
    [][\A t \in TurnIds :
         PlaybackDone(t) /\ isActive
            => TurnOrder(t) =
                 << "listening", "transcribing", "user_spoke", "ai_thinking",
                    "ai_response", "tts_generating", "ai_speaking",
                    "ai_audio", "idle", "turn_complete" >>]_vars

(* a turn has completed *)
C10_Witness ==
    /\ Len(events) = 2
    /\ events[2].type = "turn_complete"
    /\ events[1].type = "state_changed"
    /\ events[1].arg = "idle"

----------------------------------------------------------------------------
(* the fields of the orchestrator object *)
Fields(S) ==
    <<S.isActive, S.currentState, S.mode, S.processingResponse,
      S.lastTranscription, S.speechCollectionTimer, S.isCollectingSpeech,
      S.sttSession, S.turns>>

(* the fields other than the pending transcript *)
FieldsButTranscript(S) ==
    <<S.isActive, S.currentState, S.mode, S.processingResponse,
      S.speechCollectionTimer, S.isCollectingSpeech, S.sttSession, S.turns>>

(* C11: when the collection timer has fired and no fragment has been       *)
(* accepted by the end of the grace wait, the turn has emitted             *)
(* state_changed(transcribing) and now emits state_changed(idle) and       *)
(* no_speech_detected, it has called neither the Chat Responder nor the    *)
(* Speech Synthesizer, and processingResponse is false while the turn      *)
(* waits with no transcript, and before and after its last step.           *)
C11_NoSpeechTurn ==
    [][\A t \in TurnIds :
         /\ (turns[t].pc = "poll" /\ pending(Cur)) => ~processingResponse
         /\ (TimerFire(t) /\ pending(Cur))
               => /\ Len(events') = 1
                  /\ events'[1].type = "state_changed"
                  /\ events'[1].arg = "transcribing"
                  /\ calls' = <<>>
                  /\ ~processingResponse'
         /\ (PollWake(t) /\ pending(Cur))
               => /\ turns[t].log = <<"listening", "user_speaking",
                                      "transcribing">>
                  /\ Len(events') = 2
                  /\ events'[1].type = "state_changed"
                  /\ events'[1].arg = "idle"
                  /\ events'[1].turn = t
                  /\ events'[2].type = "no_speech_detected"
                  /\ events'[2].turn = t
                  /\ calls' = <<>>
                  /\ currentState' = "idle"
                  /\ ~processingResponse'
                  /\ turns'[t] = NoTurn]_vars

(* a turn has ended with no speech in an active session *)
C11_Witness ==
    /\ isActive
    /\ Len(events) = 2
    /\ events[2].type = "no_speech_detected"
    /\ events[2].turn # 0
    /\ calls = <<>>

(* C12: a transcription event delivered while the session is inactive, or  *)
(* while processingResponse is true, or while no window is open leaves     *)
(* every field unchanged and emits no event: in every reachable state      *)
(* outside a window, for every text.                                       *)
C12_OutsideWindowIgnored ==
    (~isActive \/ processingResponse \/ ~isCollectingSpeech)
       => \A text \in Transcripts :
            /\ Fields(onTranscription(Begin, text)) = Fields(Cur)
            /\ onTranscription(Begin, text).events = <<>>
            /\ onTranscription(Begin, text).calls = <<>>

(* a fragment was delivered to an active session with no window open *)
C12_Witness ==
    recLog = "fragment ignored" /\ isActive /\ ~isCollectingSpeech

(* C13: in an open collection window a fragment of trimmed length below 3  *)
(* (empty text included) changes no field and emits nothing; one of        *)
(* trimmed length 3 or more overwrites the pending transcript, changes no  *)
(* other field and emits nothing.                                          *)
C13_ShortFragmentIgnored ==
    (isActive /\ ~processingResponse /\ isCollectingSpeech)
       => \A text \in Transcripts :
            /\ onTranscription(Begin, text).events = <<>>
            /\ onTranscription(Begin, text).calls = <<>>
            /\ FieldsButTranscript(onTranscription(Begin, text))
                 = FieldsButTranscript(Cur)
            /\ onTranscription(Begin, text).lastTranscription =
                 IF Len(trim(text)) < 3 THEN lastTranscription ELSE text

(* a short fragment was delivered in a window that holds a transcript *)
C13_Witness ==
    /\ recLog = "fragment short"
    /\ isCollectingSpeech
    /\ lastTranscription # <<>>

(* the object after the last step, as the next handler finds it *)
Then == [Cur' EXCEPT !.events = <<>>, !.calls = <<>>]

(* C14: stop() on an inactive session changes no field and emits nothing;  *)
(* a second stop() right after a stop() changes nothing and emits nothing, *)
(* so that stopped is emitted once.                                        *)
C14_StopIdempotent ==
    [][ConversationStop =>
         /\ ~isActive => (Fields(Cur') = Fields(Cur) /\ events' = <<>>)
         /\ Fields(stop(Then)) = Fields(Cur')
         /\ stop(Then).events = <<>>
         /\ isActive =>
              Cardinality({i \in DOMAIN events' :
                             events'[i].type = "stopped"}) = 1]_vars

(* stop() was called on an inactive session *)
C14_Witness ==
    /\ result.op = "conversation-stop"
    /\ events = <<>>
    /\ ~isActive
    /\ sttListeners > 0

(* C15: right after stop() on an active session isActive is false,         *)
(* currentState is idle, both flags are false, the timer handle is null    *)
(* and the reference to the Transcript Source is null; state_changed(idle) *)
(* and then stopped have been emitted.                                     *)
C15_StopResets ==
    [][ConversationStop /\ isActive =>
         /\ ~isActive'
         /\ currentState' = "idle"
         /\ ~isCollectingSpeech'
         /\ ~processingResponse'
         /\ speechCollectionTimer' = 0
         /\ ~sttSession'
         /\ \A t \in TurnIds : turns'[t].pc # "armed"
         /\ Len(events') = 2
         /\ events'[1].type = "state_changed"
         /\ events'[1].arg = "idle"
         /\ events'[2].type = "stopped"]_vars

(* stop() has run on an active session *)
C15_Witness ==
    /\ result.op = "conversation-stop"
    /\ Len(events) = 2
    /\ events[2].type = "stopped"

(* C16: after stop() no timer of the orchestrator is pending: no           *)
(* collection timer, no grace-poll wait, no playback wait.                 *)
C16_NoOrphanedTimers ==
    \A t \in TurnIds :
        /\ ~isActive => turns[t].pc # "armed"
        /\ turns[t].stopped => turns[t].pc \notin {"poll", "play"}

(* C17: after stop() no event of the Transcript Source that was bound is   *)
(* acted upon: a transcription or an error delivered to an inactive        *)
(* session emits nothing, error included, and changes no field.            *)
C17_UnboundAfterStop ==
    [][(SttError \/ \E text \in Transcripts : Transcription(text))
          /\ ~isActive
          => /\ events' = <<>>
             /\ Fields(Cur') = Fields(Cur)]_vars

(* C18: start() on an active session, or with the Chat Responder or the    *)
(* Speech Synthesizer not initialized, fails with an error, changes no     *)
(* field, registers no listener on the Transcript Source and emits         *)
(* nothing.                                                                *)
C18_StartFails ==
    [][\A m \in Modes :
         ConversationStart(m) /\ sttExists
            /\ (isActive \/ ~chatInit \/ ~ttsInit)
            => /\ ~result'.success
               /\ result'.error \in { "Conversation already active",
                                      "Chat manager not initialized",
                                      "TTS not initialized" }
               /\ isActive => result'.error = "Conversation already active"
               /\ Fields(Cur') = Fields(Cur)
               /\ sttListeners' = sttListeners
               /\ events' = <<>>]_vars

(* start() was called on an active session *)
C18_Witness ==
    /\ result.op = "conversation-start"
    /\ result.error = "Conversation already active"
    /\ isActive

(* C19: at most one collection timer is pending. *)
C19_OneCollectionTimer ==
    Cardinality({t \in TurnIds : turns[t].pc = "armed"}) <= 1

(* a window was opened while the timer of the window before was pending,   *)
(* and that timer is gone                                                  *)
C19_Witness ==
    /\ recLog = "recording"
    /\ turns[2].pc = "armed"
    /\ turns[1].pc = "none"

(* the edges of the state table *)
StateTable ==
    { <<"idle", "listening">>, <<"listening", "transcribing">>,
      <<"transcribing", "ai_thinking">>, <<"transcribing", "idle">>,
      <<"ai_thinking", "tts_generating">>, <<"ai_thinking", "idle">>,
      <<"tts_generating", "ai_speaking">>, <<"tts_generating", "idle">>,
      <<"ai_speaking", "idle">> }

(* the state changes among the events es, starting in state from, follow   *)
(* the table; anyToIdle allows the edge from every state to idle           *)
RECURSIVE followsTable(_, _, _)
followsTable(from, es, anyToIdle) ==
    IF es = <<>> THEN TRUE
    ELSE IF Head(es).type # "state_changed"
    THEN followsTable(from, Tail(es), anyToIdle)
    ELSE /\ \/ Head(es).arg = from
            \/ <<from, Head(es).arg>> \in StateTable
            \/ anyToIdle /\ Head(es).arg = "idle"
         /\ followsTable(Head(es).arg, Tail(es), anyToIdle)

(* C20: every change of currentState follows an edge of the state table;   *)
(* the edge from any state to idle is taken by stop() and by a Transcript  *)
(* Source error only.                                                      *)
C20_StateTable ==
    [][IF ConversationStop \/ SttError
       THEN followsTable(currentState, events', TRUE)
       ELSE followsTable(currentState, events', FALSE)]_vars

(* Continuation t belongs to a window or turn that was interrupted (its    *)
(* flag was cleared under it) by something other than stop().              *)
Interrupted(t) ==
    /\ ~turns[t].stopped
    /\ \/ turns[t].pc = "armed" /\ ~isCollectingSpeech
       \/ InFlight(t) /\ ~processingResponse

(* C21: a Transcript Source error on an active session that is collecting  *)
(* or processing emits error, sets currentState to idle and clears both    *)
(* flags; the window or turn it interrupted takes no further action: its   *)
(* timer does not fire into transcribing, its pipeline emits no            *)
(* ai_response, ai_audio or turn_complete.                                 *)
C21_SttErrorResets ==
    [][/\ (SttError /\ isActive /\ (isCollectingSpeech \/ processingResponse))
            => /\ events' # <<>>
               /\ events'[1].type = "error"
               /\ currentState' = "idle"
               /\ ~isCollectingSpeech'
               /\ ~processingResponse'
       /\ \A t \in TurnIds :
            Interrupted(t)
               => \A i \in DOMAIN events' :
                    events'[i].turn = t
                       => /\ events'[i].type \notin
                               {"ai_response", "ai_audio", "turn_complete"}
                          /\ events'[i].type = "state_changed"
                                => events'[i].arg # "transcribing"]_vars

(* C22, as claimed: a Transcript Source error on an active session that is *)
(* idle, not collecting and not processing emits error, changes no field   *)
(* and emits no state_changed.                                             *)
C22_ClaimedIdleError ==
    [][SttError /\ isActive /\ Quiescent
          => /\ Fields(Cur') = Fields(Cur)
             /\ events' # <<>>
             /\ events'[1].type = "error"
             /\ \A i \in DOMAIN events' :
                  events'[i].type # "state_changed"]_vars

(* C22, amended: such an error emits error and then state_changed(idle),   *)
(* once for every listener the orchestrator has on the source, and changes *)
(* no field.                                                               *)
C22_IdleErrorReported ==
    [][SttError /\ isActive /\ Quiescent
          => /\ Fields(Cur') = Fields(Cur)
             /\ Len(events') = 2 * sttListeners
             /\ \A i \in DOMAIN events' :
                  IF i % 2 = 1
                  THEN events'[i].type = "error"
                  ELSE /\ events'[i].type = "state_changed"
                       /\ events'[i].arg = "idle"]_vars

(* a Transcript Source error was reported to an idle, active session *)
C22_Witness ==
    /\ isActive
    /\ Quiescent
    /\ events # <<>>
    /\ events[1].type = "error"
    /\ events[1].turn = 0
    /\ events[1].unwound

(* C23: whenever an error event is emitted on an active session, both      *)
(* flags are already false, so that a startRecording() from inside the     *)
(* listener is accepted.                                                   *)
C23_UnwoundBeforeError ==
    \A i \in DOMAIN events :
        (events[i].type = "error" /\ isActive) => events[i].unwound

(* C24: isActive changes from true to false in stop() only: no chat        *)
(* failure, synthesis failure, Transcript Source error or no-speech        *)
(* outcome makes the session inactive.                                     *)
C24_OnlyStopEndsSession ==
    [][(isActive /\ ~isActive') => ConversationStop]_vars

(* a Transcript Source error has interrupted a window or turn of a session *)
(* that is still active                                                    *)
C24_Witness ==
    /\ isActive
    /\ events # <<>>
    /\ events[1].type = "error"
    /\ events[1].turn = 0
    /\ ~events[1].unwound

(* C25: the reply of conversation-start-recording to a call that was       *)
(* ignored differs from the reply to a call that opened a window.          *)
C25_OutcomeReported ==
    (result.op = "conversation-start-recording" /\ recLog = "ignored")
       => result # Reply("conversation-start-recording", "")

(* C26, as claimed: in a session started with mode single-turn, the        *)
(* completion of a turn stops the session: isActive becomes false and      *)
(* stopped is emitted.                                                     *)
C26_SingleTurnStops ==
    [][\A t \in TurnIds :
         (PlaybackDone(t) /\ isActive /\ mode = "single-turn")
            => /\ ~isActive'
               /\ \E i \in DOMAIN events' : events'[i].type = "stopped"]_vars

(* C26, amended: in either mode the completion of a turn leaves the        *)
(* session active and idle, emits state_changed(idle) and turn_complete    *)
(* and no stopped, and leaves mode as it is.                               *)
C26_ModeHasNoEffect ==
    [][\A t \in TurnIds :
         (PlaybackDone(t) /\ isActive)
            => /\ isActive'
               /\ currentState' = "idle"
               /\ mode' = mode
               /\ Len(events') = 2
               /\ events'[1].type = "state_changed"
               /\ events'[2].type = "turn_complete"]_vars

(* a turn has completed in a session started with mode single-turn *)
C26_Witness ==
    /\ mode = "single-turn"
    /\ isActive
    /\ Len(events) = 2
    /\ events[2].type = "turn_complete"

(* C27, as claimed: isCollectingSpeech is true only while a collection     *)
(* timer is armed and has not fired, and the step in which the timer fires *)
(* clears isCollectingSpeech.                                              *)
C27_CollectingOnlyWhileArmed ==
    /\ [](isCollectingSpeech => \E t \in TurnIds : turns[t].pc = "armed")
    /\ [][\A t \in TurnIds : TimerFire(t) => ~isCollectingSpeech']_vars

(* C27, amended: isCollectingSpeech is true only while a window or its     *)
(* turn is outstanding (timer armed, callback in its grace wait, or        *)
(* pipeline running), and the step in which the timer fires disarms it     *)
(* and leaves isCollectingSpeech as it was.                                *)
C27_CollectingWhileTurnOutstanding ==
    /\ [](isCollectingSpeech => \E t \in TurnIds : turns[t].pc # "none")
    /\ [][\A t \in TurnIds :
            TimerFire(t) => /\ isCollectingSpeech' = isCollectingSpeech
                            /\ turns'[t].pc # "armed"]_vars

(* the timer has fired, the callback is in its grace wait, no timer is     *)
(* armed and isCollectingSpeech is still true                              *)
C27_Witness ==
    /\ isCollectingSpeech
    /\ currentState = "transcribing"
    /\ \E t \in TurnIds : turns[t].pc = "poll"
    /\ \A t \in TurnIds : turns[t].pc # "armed"

(* C28: the pending transcript is turn-scoped: in every state with         *)
(* currentState idle, isCollectingSpeech false and processingResponse      *)
(* false, lastTranscription is empty.                                      *)
C28_TranscriptTurnScoped ==
    (currentState = "idle" /\ ~isCollectingSpeech /\ ~processingResponse)
        => lastTranscription = <<>>

(* the timers that are armed *)
armedTimers(T) == {t \in TurnIds : T[t].pc = "armed"}

(* C29: an accepted startRecording() does in one step: the pending         *)
(* transcript is cleared, isCollectingSpeech becomes true, currentState    *)
(* becomes listening with state_changed(listening) emitted, exactly one    *)
(* collection timer is armed, for speechCollectionDuration (7000 ms);      *)
(* processingResponse and isActive are unchanged.                          *)
C29_AcceptedStartRecording ==
    [][(ConversationStartRecording /\ Accepts(Cur))
          => /\ lastTranscription' = <<>>
             /\ isCollectingSpeech'
             /\ currentState' = "listening"
             /\ events' # <<>>
             /\ events'[1].type = "state_changed"
             /\ events'[1].arg = "listening"
             /\ \A i \in DOMAIN events' :
                    events'[i].type \in {"state_changed", "user_speaking"}
             /\ Cardinality(armedTimers(turns')) = 1
             /\ \A t \in armedTimers(turns') :
                    /\ turns'[t].delay = 7000
                    /\ speechCollectionTimer' = t
             /\ processingResponse' = processingResponse
             /\ isActive' = isActive]_vars

(* a window has just been opened: listening, collecting, one timer armed   *)
(* for 7000 ms                                                             *)
C29_Witness ==
    /\ recLog = "recording"
    /\ currentState = "listening"
    /\ isCollectingSpeech
    /\ Len(events) = 2
    /\ events[1].arg = "listening"
    /\ \E t \in TurnIds : turns[t].pc = "armed" /\ turns[t].delay = 7000

(* C30: a fragment of trimmed length at least 3 that arrives after the     *)
(* collection timer has fired and before the grace wait ends (state        *)
(* transcribing, no turn being processed) is accepted as the transcript,   *)
(* ends the grace wait at the next poll and is passed to the Chat          *)
(* Responder; the turn does not end in no_speech_detected.                 *)
C30_TrailingFragmentAbsorbed ==
    [][\A t \in TurnIds, text \in Transcripts :
         ( /\ Transcription(text)
           /\ Len(trim(text)) >= minTranscriptionLength
           /\ turns[t].pc = "poll"
           /\ currentState = "transcribing"
           /\ ~processingResponse )
            => /\ lastTranscription' = text
               /\ LET R == pollWake(Then, t)
                  IN  /\ R.turns[t].pc # "poll"
                      /\ \E i \in DOMAIN R.calls :
                            /\ R.calls[i].fn = "chat"
                            /\ R.calls[i].arg = text
                      /\ \A j \in DOMAIN R.events :
                            R.events[j].type # "no_speech_detected"]_vars

(* n polls of continuation t one after the other, no other handler in     *)
(* between                                                                 *)
RECURSIVE polls(_, _, _)
polls(S, t, n) ==
    IF n = 0 \/ S.turns[t].pc # "poll" THEN S
    ELSE CHOOSE R \in {pollWake(N, t) : N \in {polls(S, t, n - 1)}} : TRUE

(* C31: the grace wait is bounded.  When the timer fires with a transcript *)
(* already accepted the callback polls zero times; with none it starts to  *)
(* poll.  A poll that finds a transcript leaves the loop; with no          *)
(* transcript the loop is still polling after 29 polls and after the 30th  *)
(* it takes the no-speech edge.  The loop always ends.                     *)
C31_GraceWaitBounded ==
    [][\A t \in TurnIds :
         /\ (TimerFire(t) /\ ~pending(Cur)) => turns'[t].pc # "poll"
         /\ (TimerFire(t) /\ pending(Cur))
               => turns'[t].pc = "poll" /\ turns'[t].attempts = 0
         /\ (PollWake(t) /\ ~pending(Cur))
               => /\ pollWake(Resume(t), t).turns[t].pc # "poll"
                  /\ \A j \in DOMAIN events' :
                        events'[j].type # "no_speech_detected"
         /\ (PollWake(t) /\ pending(Cur))
               => /\ polls(Resume(t), t, 29).turns[t].pc = "poll"
                  /\ polls(Resume(t), t, 29).turns[t].attempts = 29
                  /\ polls(Resume(t), t, 29).events = <<>>
                  /\ polls(Resume(t), t, 30).turns[t].pc = "none"
                  /\ polls(Resume(t), t, 30) = graceWait(Resume(t), t)
                  /\ \E j \in DOMAIN events' :
                        events'[j].type = "no_speech_detected"
         /\ PollWake(t) => turns'[t].pc # "poll"]_vars

(* the timer has fired with no transcript and the callback is polling *)
C31_Witness ==
    \E t \in TurnIds :
        /\ turns[t].pc = "poll"
        /\ turns[t].attempts = 0
        /\ pending(Cur)
        /\ turns[t].log = <<"listening", "user_speaking", "transcribing">>

(* continuation t waits for a collaborator call to resolve *)
Outstanding(t) == turns[t].pc \in {"chat", "tts"}

(* C32: no retry and strict sequencing of the collaborator calls.  A turn  *)
(* calls the Chat Responder once, when its pipeline begins, and the Speech *)
(* Synthesizer at most once, in the step in which its chat call resolved   *)
(* and with the reply of that call; a chat failure is followed by no call; *)
(* no call is issued while another call of the orchestrator is             *)
(* outstanding.                                                            *)
C32_CallsInSequence ==
    [][/\ \A i \in DOMAIN calls' :
            LET c == calls'[i]
            IN  /\ c.fn = "chat" => turns[c.turn].pc \in {"armed", "poll"}
                /\ c.fn = "tts"
                     => /\ turns[c.turn].pc = "chat"
                        /\ \E r \in Replies : ChatResolve(c.turn, r)
                                                /\ c.arg = r
                /\ \A u \in TurnIds : u # c.turn => ~Outstanding(u)
       /\ Len(calls') <= 1
       /\ \A t \in TurnIds :
            /\ (ChatFail(t) \/ TtsFail(t)) => calls' = <<>>
            /\ (TtsResolve(t) \/ PlaybackDone(t)) => calls' = <<>>]_vars

(* C33: processingResponse tracks the pipeline states: currentState is    *)
(* ai_thinking, tts_generating or ai_speaking if and only if               *)
(* processingResponse is true.                                             *)
C33_ProcessingTracksState ==
    (currentState \in {"ai_thinking", "tts_generating", "ai_speaking"})
        <=> processingResponse

(* C34: an armed window belongs to a collecting session: whenever a        *)
(* collection timer is armed, isActive and isCollectingSpeech are true and *)
(* currentState is listening.                                              *)
C34_ArmedMeansCollecting ==
    \A t \in TurnIds :
        turns[t].pc = "armed"
            => isActive /\ isCollectingSpeech /\ currentState = "listening"

(* C35: turns are manually triggered only: the Chat Responder is called   *)
(* in a session only after a startRecording() was accepted in that         *)
(* session, since its start().                                             *)
C35_ManualTurnsOnly ==
    [][\A i \in DOMAIN calls' :
          calls'[i].fn = "chat" => signal # "off"]_vars

(* C36: each event of the Transcript Source is consumed once, whatever    *)
(* the number of stop()/start() cycles over the same session: at most one  *)
(* listener set of the orchestrator is registered on the session, and one  *)
(* error of the source produces exactly one error event.                   *)
C36_ConsumedOnce ==
    /\ [](sttListeners <= 1)
    /\ [][SttError
            => Cardinality({i \in DOMAIN events' :
                               events'[i].type = "error"}) = 1]_vars

(* C37: each orchestrator event is forwarded to the renderer at most      *)
(* once: whatever conversation-start and conversation-stop calls were      *)
(* made, failed ones included, at most one set of forwarding listeners is  *)
(* registered on the orchestrator.                                         *)
C37_ForwardedOnce == nFwd <= 1

(* C38: the chat history is bounded: for every configured                 *)
(* maxHistoryLength N >= 1, the message list a sendMessage sends to the    *)
(* completion API has at most N messages, its first message is the system *)
(* prompt, which is in it once, and the others are the most recent         *)
(* messages in their order.                                                *)
C38_HistoryBounded ==
    [][\A text \in UserMessages :
         SendMessage(text)
            => LET m == messages'
                   full == Append(conversationHistory, Msg("user", text))
               IN  /\ m # <<>>
                   /\ Len(m) <= maxHistoryLength
                   /\ m[1].role = "system"
                   /\ Cardinality({i \in DOMAIN m :
                                      m[i].role = "system"}) = 1
                   /\ Tail(m) = SubSeq(full, Len(full) - Len(m) + 2,
                                       Len(full))]_vars

(* C39: a failed chat call leaves the history as it was: after a          *)
(* sendMessage that threw, the history is the one it would be had the call *)
(* not been made.                                                          *)
C39_FailureKeepsHistory ==
    chatResult = "rejected" => conversationHistory = historyBefore

(* C40: sendMessage terminates: if every call of the completion API        *)
(* completes, a sendMessage that awaits the API eventually resolves or     *)
(* rejects.                                                                *)
C40_SendMessageTerminates == (chatPc = "api") ~> (chatPc = "idle")

====
